---- MODULE Spec2Model ----
(***************************************************************************)
(* The OAuth token lifecycle of sales_bot: the token table (get_tokens,    *)
(* update_tokens), the refresh exchange (refresh_access_token), the        *)
(* authenticated request with its refresh-and-retry (_make_request) and    *)
(* the OAuth callback, as they run on one asyncio event loop.              *)
(*                                                                         *)
(* A coroutine gives up the loop only at an await.  _make_request awaits   *)
(* twice, once per client.request; refresh_access_token, update_tokens and *)
(* exchange_code_for_token are synchronous (requests, psycopg2), so each   *)
(* runs to its end inside the step that calls it.                          *)
(***************************************************************************)
EXTENDS Integers, Sequences, FiniteSets, TLC

\* Concurrent process_message tasks (main.py:91 creates one per webhook).
NTasks == 2
\* Token pairs the provider issues at most, those found in the table included.
MaxIssue == 3

Tasks == 1..NTasks

VARIABLES
    store,          \* rows of table tokens
    access_token,   \* GHLAPI.access_token
    refresh_token,  \* GHLAPI.refresh_token
    headers,        \* GHLAPI.headers
    issued,         \* number of pairs the provider has issued so far
    lastSave,       \* pair of the last update_tokens that returned ({} before)
    retired,        \* access tokens a successful refresh has replaced
    pc,             \* per task: "idle", or "await" inside client.request
    sent,           \* per task: Authorization token of each request of its call
    resp,           \* watched call: outcome of each request
    rf,             \* watched call: each refresh_access_token call made
    result,         \* watched call: what _make_request gave its caller
    op,             \* watched call: the operation that made it
    ret,            \* watched call: what that operation gave its caller
    blocked,        \* the synchronous call the event loop is stuck in, or ""
    boot,           \* what get_tokens gave GHLAPI.__init__
    consumed,       \* refresh tokens the provider has exchanged for a new pair
    auth            \* the settings and the URL of GET /oauth/authorize

vars == <<store, access_token, refresh_token, headers, issued, lastSave,
          retired, pc, sent, resp, rf, result, op, ret, blocked, boot,
          consumed, auth>>

tokenVars == <<store, access_token, refresh_token, headers, lastSave>>

----------------------------------------------------------------------------
\* Tokens.  The provider answers a token request with an access token and a
\* refresh token of one issuance n (tokens["access_token"] and
\* tokens["refresh_token"] of one response).

AccessTok(n) == <<"access", n>>
RefreshTok(n) == <<"refresh", n>>

----------------------------------------------------------------------------
\* The token table.

Row(id, a, r, at) ==
    [id |-> id, access_token |-> a, refresh_token |-> r, updated_at |-> at]

\* NOW() of the UPDATE: later than every timestamp already in the table.
NOW(s) ==
    IF s = {} THEN 1
    ELSE 1 + (CHOOSE m \in {w.updated_at : w \in s} :
                 \A w \in s : w.updated_at <= m)

\* SELECT ... ORDER BY updated_at DESC LIMIT 1
LatestRow(s) == CHOOSE w \in s : \A v \in s : v.updated_at <= w.updated_at

\* What a database call can do: succeed, fail to connect, fail otherwise,
\* or never come back (psycopg2.connect is given no connect_timeout).
DbOutcomes == {"ok", "unavailable", "error", "hang"}

\* get_tokens: the pair of the latest row; ValueError when the table is
\* empty or the connection fails, any other exception re-raised.
\* `raised` is the class of the exception, `message` its text.
get_tokens(s, db) ==
    IF db = "unavailable"
    THEN [raised |-> "ValueError", message |-> "Failed to connect to database",
          pair |-> {}]
    ELSE IF db = "error"
    THEN [raised |-> "Exception", message |-> "", pair |-> {}]
    ELSE IF s = {}
    THEN [raised |-> "ValueError", message |-> "No tokens found in database",
          pair |-> {}]
    ELSE [raised |-> "", message |-> "",
          pair |-> {<<LatestRow(s).access_token, LatestRow(s).refresh_token>>}]

\* UPDATE tokens SET access_token, refresh_token, updated_at=NOW() WHERE id=1
UpdateRow(s, a, r) ==
    {IF w.id = 1 THEN Row(1, a, r, NOW(s)) ELSE w : w \in s}

\* update_headers
update_headers(a) == [Authorization |-> a]

\* Variant of update_tokens that forgets self.refresh_token.
update_tokens_access_only(a, r, db) ==
    IF db = "ok"
    THEN /\ store' = UpdateRow(store, a, r)
         /\ access_token' = a
         /\ headers' = update_headers(a)
         /\ lastSave' = {<<a, r>>}
         /\ UNCHANGED refresh_token
    ELSE UNCHANGED tokenVars

\* Variant of update_tokens that writes the table and leaves the instance
\* fields and the headers as they were.
update_tokens_db_only(a, r, db) ==
    IF db = "ok"
    THEN /\ store' = UpdateRow(store, a, r)
         /\ lastSave' = {<<a, r>>}
         /\ UNCHANGED <<access_token, refresh_token, headers>>
    ELSE UNCHANGED tokenVars

\* Variant of update_tokens that assigns the instance fields before it
\* reaches the database.
update_tokens_fields_first(a, r, db) ==
    /\ access_token' = a
    /\ refresh_token' = r
    /\ headers' = update_headers(a)
    /\ IF db = "ok"
       THEN store' = UpdateRow(store, a, r) /\ lastSave' = {<<a, r>>}
       ELSE UNCHANGED <<store, lastSave>>

\* update_tokens(new_access_token, new_refresh_token): UPDATE and commit,
\* then the instance fields and the headers; on a database error it raises
\* before any of them.
update_tokens(a, r, db) ==
    IF db = "ok"
    THEN /\ store' = UpdateRow(store, a, r)
         /\ access_token' = a
         /\ refresh_token' = r
         /\ headers' = update_headers(a)
         /\ lastSave' = {<<a, r>>}
    ELSE UNCHANGED tokenVars

----------------------------------------------------------------------------
\* Provider answers.

\* requests' raise_for_status (token endpoint): raises on 4xx and 5xx only.
RequestsRaises(status) == 400 <= status /\ status < 600

\* httpx's raise_for_status (business API): raises unless 2xx.
HttpxRaises(status) == ~(200 <= status /\ status <= 299)

TokenKeys == {"access_token", "refresh_token"}

\* What the token endpoint can answer: no answer (transport), an error
\* status, or a 2xx / 3xx status with a body that is not JSON or is a JSON
\* object holding one or both of the two keys.
TokenOutcomes ==
    { [kind |-> "transport", status |-> 200, json |-> FALSE, keys |-> {}],
      [kind |-> "response", status |-> 400, json |-> TRUE, keys |-> {}],
      [kind |-> "response", status |-> 200, json |-> FALSE, keys |-> {}],
      [kind |-> "response", status |-> 200, json |-> TRUE,
       keys |-> {"access_token"}],
      [kind |-> "response", status |-> 200, json |-> TRUE,
       keys |-> {"refresh_token"}],
      [kind |-> "response", status |-> 200, json |-> TRUE, keys |-> TokenKeys],
      [kind |-> "response", status |-> 304, json |-> TRUE, keys |-> TokenKeys] }

\* The token endpoint never answers: requests.post is given no timeout.
NoAnswer == [kind |-> "hang", status |-> 200, json |-> FALSE, keys |-> {}]

\* What the business API can answer: no answer (transport, which includes
\* httpx's own timeout), a 2xx whose body is not JSON, a JSON array, a JSON
\* object or a contact with a named pipeline, or another status.
ApiOutcomes ==
    { [kind |-> "transport", status |-> 200, json |-> FALSE, body |-> ""],
      [kind |-> "response", status |-> 200, json |-> TRUE,
       body |-> "contact"],
      [kind |-> "response", status |-> 200, json |-> TRUE, body |-> "object"],
      [kind |-> "response", status |-> 200, json |-> TRUE, body |-> "array"],
      [kind |-> "response", status |-> 200, json |-> FALSE, body |-> ""],
      [kind |-> "response", status |-> 304, json |-> TRUE, body |-> "object"],
      [kind |-> "response", status |-> 401, json |-> TRUE, body |-> "object"],
      [kind |-> "response", status |-> 500, json |-> TRUE,
       body |-> "object"] }

----------------------------------------------------------------------------
\* The token exchange, as refresh_access_token and exchange_code_for_token
\* plus oauth_callback read the answer.

\* The provider mints a pair when its answer holds both tokens.
Mints(to) == to.kind = "response" /\ to.json /\ to.keys = TokenKeys

\* requests.post raised, raise_for_status raised, response.json() raised, or
\* tokens["access_token"] / tokens["refresh_token"] raised KeyError.
ExchangeRaises(to) ==
    \/ to.kind = "transport"
    \/ RequestsRaises(to.status)
    \/ ~to.json
    \/ "access_token" \notin to.keys
    \/ "refresh_token" \notin to.keys

\* exchange_code_for_token: requests.post, raise_for_status, and the
\* decoded body as it is; the keys of the body are not looked at.
exchange_code_for_token(to) ==
    IF to.kind = "transport" \/ RequestsRaises(to.status) \/ ~to.json
    THEN [raised |-> TRUE, keys |-> {}]
    ELSE [raised |-> FALSE, keys |-> to.keys]

\* tokens["access_token"], tokens["refresh_token"] in oauth_callback
KeyError(keys) == "access_token" \notin keys \/ "refresh_token" \notin keys

\* refresh_access_token's return value.
RefreshReturns(to, db) == ~ExchangeRaises(to) /\ db = "ok"

\* refresh_access_token: the exchange, then update_tokens with the new pair;
\* every exception is caught and turned into False.
refresh_access_token(to, db) ==
    IF ExchangeRaises(to)
    THEN UNCHANGED tokenVars
    ELSE update_tokens(AccessTok(issued), RefreshTok(issued), db)

----------------------------------------------------------------------------
\* _make_request.

\* Variant of RefreshOn that refreshes on every 401, the retried one too.
RefreshOnEvery401(status, attempt) == status = 401

\* Variant of RefreshOn that refreshes and retries after any first answer.
RefreshOnAnyStatus(status, attempt) == attempt = 1

\* Variant of RefreshOn that refreshes on every error status.
RefreshOnClientError(status, attempt) == status >= 400 /\ attempt = 1

\* `if response.status_code == 401` guards the one refresh of a call: it is
\* applied to the first response only, the retried response goes straight
\* to raise_for_status.
RefreshOn(status, attempt) == status = 401 /\ attempt = 1

\* Variant of RetryIf that retries whatever the refresh returned.
RetryIfAlways(refreshed) == TRUE

\* Variant of RetryAuthorization that reuses the headers read before the
\* refresh.
RetryAuthorizationStale(t) == headers.Authorization

\* `if self.refresh_access_token():` the retry is sent only when the refresh
\* returned True.
RetryIf(refreshed) == refreshed

\* The retry is sent with self.headers as they are after the refresh.
RetryAuthorization(t) == headers'.Authorization

NoResult == [kind |-> "none", exc |-> "", of |-> 0]
Returned(i) == [kind |-> "returned", exc |-> "", of |-> i]
Raised(e, i) == [kind |-> "raised", exc |-> e, of |-> i]

\* response.raise_for_status(); return response.json()
Finish(o, i) ==
    IF HttpxRaises(o.status) THEN Raised("HTTPStatusError", i)
    ELSE IF ~o.json THEN Raised("JSONDecodeError", i)
    ELSE Returned(i)

----------------------------------------------------------------------------
\* get_contact_pipeline and send_sms, the two operations built on
\* _make_request.

Ops == {"get_contact_pipeline", "send_sms"}

NoReturn == [kind |-> "none", name |-> "", success |-> FALSE]
ReturnsName(n) == [kind |-> "returned", name |-> n, success |-> FALSE]
ReturnsBool(b) == [kind |-> "returned", name |-> "", success |-> b]
Propagates == [kind |-> "raised", name |-> "", success |-> FALSE]

\* Variant of get_contact_pipeline without its except clause.
get_contact_pipeline_reraising(res, o) ==
    IF res.kind = "raised" \/ o.body = "array" THEN Propagates
    ELSE IF o.body = "contact" THEN ReturnsName("Sales")
    ELSE ReturnsName("")

\* get_contact_pipeline: "" when _make_request raised or data.get raised
\* (data is no dict); else the name of data["pipeline"], "" without one.
get_contact_pipeline(res, o) ==
    IF res.kind = "raised" THEN ReturnsName("")
    ELSE IF o.body = "array" THEN ReturnsName("")
    ELSE IF o.body = "contact" THEN ReturnsName("Sales")
    ELSE ReturnsName("")

\* send_sms: True when _make_request returned, False when it raised.
send_sms(res, o) == ReturnsBool(res.kind # "raised")

\* The operation w returns to process_message.
Return(w, res, o) ==
    IF w = "send_sms" THEN send_sms(res, o) ELSE get_contact_pipeline(res, o)

\* The table as the process finds it: one row, with id 1 or not, or two rows.
InitStores ==
    { {Row(1, AccessTok(0), RefreshTok(0), 1)},
      {Row(2, AccessTok(0), RefreshTok(0), 1)},
      {Row(1, AccessTok(0), RefreshTok(0), 1),
       Row(2, AccessTok(1), RefreshTok(1), 2)} }

\* Every task runs the same code.  The responses, refreshes and result of a
\* call are recorded for the calls of one task, and stay until its next call.
Watched(t) == t = 1

\* The database is reached only when the exchange did not raise.
DbFor(to) == IF ExchangeRaises(to) THEN {"ok"} ELSE DbOutcomes

\* The exchange never returns: requests.post waits for an answer that does
\* not come, or update_tokens waits for the database.
Stuck(to, db) == to.kind = "hang" \/ (~ExchangeRaises(to) /\ db = "hang")

\* The call that holds the event loop then.
StuckIn(to) == IF to.kind = "hang" THEN "requests.post" ELSE "psycopg2"

\* Strings are sequences of characters. The characters a setting is made
\* of: a plain one, and the reserved '&', '=' and space.
Chars == {"a", "&", "=", " "}

\* Longest string of Chars drawn for a setting.
MaxStrLen == 2

Strs == UNION {[1..n -> Chars] : n \in 0..MaxStrLen}

\* GHL_CLIENT_ID: not empty (validate_client_id).
ClientIds == Strs \ {<<>>}

\* GHL_REDIRECT_URI: starts with a scheme (validate_redirect_uri).
RedirectUris == {<<"https://">> \o s : s \in Strs}

\* The scope of get_authorization_url, a literal: names separated by
\* spaces.
SCOPE == <<"contacts.readonly", " ", "contacts.write">>

\* get_authorization_url(client_id, redirect_uri): "&".join(f"{k}={v}")
\* behind "{oauth_url}/authorize?"; the values go in as they are.
get_authorization_url(client_id, redirect_uri) ==
    <<"https://marketplace.gohighlevel.com/oauth/authorize", "?">>
    \o <<"client_id", "=">> \o client_id
    \o <<"&", "redirect_uri", "=">> \o redirect_uri
    \o <<"&", "response_type", "=", "code">>
    \o <<"&", "scope", "=">> \o SCOPE

\* The index of the first c in s, 0 when there is none.
Find(s, c) ==
    IF \E i \in 1..Len(s) : s[i] = c
    THEN CHOOSE i \in 1..Len(s) : s[i] = c /\ \A j \in 1..(i - 1) : s[j] # c
    ELSE 0

\* urlsplit(url).query: what follows the first '?'.
Query(url) ==
    IF Find(url, "?") = 0 THEN <<>>
    ELSE SubSeq(url, Find(url, "?") + 1, Len(url))

\* s.split(c)
RECURSIVE Split(_, _)
Split(s, c) ==
    IF Find(s, c) = 0 THEN <<s>>
    ELSE <<SubSeq(s, 1, Find(s, c) - 1)>>
         \o Split(SubSeq(s, Find(s, c) + 1, Len(s)), c)

\* unquote(v.replace('+', ' '))
Unquote(v) ==
    [i \in 1..Len(v) |-> IF v[i] = "%26" THEN "&"
                         ELSE IF v[i] = "%3D" THEN "="
                         ELSE IF v[i] = "+" THEN " " ELSE v[i]]

\* parse_qsl(query): the fields between '&', each cut at its first '=';
\* a field without '=' or with an empty value is dropped.
RECURSIVE Fields(_)
Fields(pieces) ==
    IF pieces = <<>> THEN <<>>
    ELSE LET nv == Head(pieces)
             eq == Find(nv, "=")
         IN  (IF eq = 0 \/ eq = Len(nv) THEN <<>>
              ELSE << <<Unquote(SubSeq(nv, 1, eq - 1)),
                        Unquote(SubSeq(nv, eq + 1, Len(nv)))>> >>)
             \o Fields(Tail(pieces))

parse_qsl(query) == Fields(Split(query, "&"))

\* parse_qs(urlsplit(url).query)[name]: the values of name, in order.
Values(url, name) ==
    LET f == SelectSeq(parse_qsl(Query(url)), LAMBDA x : x[1] = <<name>>)
    IN  [i \in 1..Len(f) |-> f[i][2]]

\* No GET /oauth/authorize has been served.
NoAuth == [client_id |-> <<>>, redirect_uri |-> <<>>, url |-> <<>>]

\* The fields of a GHLAPI whose __init__ raised: never assigned.
Unset == <<"unset", 0>>

\* GHLAPI.__init__ on table s with the database doing db: the fields from
\* get_tokens, then update_headers. An exception of get_tokens leaves
\* __init__, and the import of main with it.
Construct(s, db) ==
    /\ store = s
    /\ boot = get_tokens(s, db)
    /\ IF boot.raised = ""
       THEN \E p \in boot.pair :
               /\ access_token = p[1]
               /\ refresh_token = p[2]
               /\ headers = update_headers(p[1])
       ELSE /\ access_token = Unset
            /\ refresh_token = Unset
            /\ headers = update_headers(Unset)
    /\ issued = Cardinality(s)

\* No call has been made yet.
InitCalls ==
    /\ auth = NoAuth
    /\ consumed = {}
    /\ lastSave = {}
    /\ retired = {}
    /\ pc = [t \in Tasks |-> "idle"]
    /\ sent = [t \in Tasks |-> <<>>]
    /\ resp = <<>>
    /\ rf = <<>>
    /\ result = NoResult
    /\ op \in Ops
    /\ ret = NoReturn
    /\ blocked = ""

\* The process starts on a table that holds a pair and a database that
\* answers.
Init == \E s \in InitStores : Construct(s, "ok") /\ InitCalls

\* The process starts on any table, the empty one included, and any
\* database that answers at all.
InitBoot ==
    \E s \in InitStores \cup {{}} : \E db \in DbOutcomes \ {"hang"} :
        Construct(s, db) /\ InitCalls

\* The module-level ghl_api exists and the event loop runs.
Serving == boot.raised = "" /\ blocked = ""

\* client.request(..., headers=self.headers): the first request leaves and
\* the coroutine awaits its response.
Start(t) ==
    /\ Serving
    /\ pc[t] = "idle"
    /\ pc' = [pc EXCEPT ![t] = "await"]
    /\ sent' = [sent EXCEPT ![t] = <<headers.Authorization>>]
    /\ IF Watched(t)
       THEN /\ resp' = <<>> /\ rf' = <<>> /\ result' = NoResult
            /\ op' \in Ops /\ ret' = NoReturn
       ELSE UNCHANGED <<resp, rf, result, op, ret>>
    /\ UNCHANGED <<tokenVars, issued, retired, blocked, boot, consumed,
                   auth>>

\* The call of t ends with result res after the answer o, and the operation
\* that made it returns.
Ends(t, res, o) ==
    /\ pc' = [pc EXCEPT ![t] = "idle"]
    /\ UNCHANGED <<op, blocked>>
    /\ IF Watched(t)
       THEN result' = res /\ ret' = Return(op, res, o) /\ UNCHANGED sent
       ELSE sent' = [sent EXCEPT ![t] = <<>>] /\ UNCHANGED <<result, ret>>

\* A response (or a transport failure) resumes the coroutine, which runs to
\* its next await or to its end.
Response(t, o) ==
    /\ Serving
    /\ pc[t] = "await"
    /\ resp' = IF Watched(t) THEN Append(resp, o) ELSE resp
    /\ UNCHANGED <<boot, auth>>
    /\ IF o.kind = "transport"
       THEN /\ Ends(t, Raised("TransportError", Len(sent[t])), o)
            /\ UNCHANGED <<tokenVars, issued, retired, rf, consumed>>
       ELSE IF RefreshOn(o.status, Len(sent[t]))
       THEN \E to \in TokenOutcomes \cup {NoAnswer} : \E db \in DbFor(to) :
            /\ Mints(to) => issued < MaxIssue
            /\ issued' = IF Mints(to) THEN issued + 1 ELSE issued
            /\ consumed' = IF Mints(to) THEN consumed \cup {refresh_token}
                           ELSE consumed
            /\ IF Stuck(to, db)
               THEN /\ blocked' = StuckIn(to)
                    /\ pc' = [pc EXCEPT ![t] = "blocked"]
                    /\ UNCHANGED <<tokenVars, retired, sent, rf, result, op,
                                   ret>>
               ELSE /\ refresh_access_token(to, db)
                    /\ rf' = IF Watched(t)
                             THEN Append(rf, [out |-> to,
                                      presented |-> refresh_token,
                                      minted |-> IF Mints(to) THEN {issued}
                                                 ELSE {},
                                      ok |-> RefreshReturns(to, db)])
                             ELSE rf
                    /\ IF RetryIf(RefreshReturns(to, db))
                       THEN /\ retired' = retired \cup {access_token}
                            /\ sent' = [sent EXCEPT
                                  ![t] = Append(@, RetryAuthorization(t))]
                            /\ UNCHANGED <<pc, result, op, ret, blocked>>
                       ELSE /\ Ends(t, Finish(o, Len(sent[t])), o)
                            /\ UNCHANGED retired
       ELSE /\ Ends(t, Finish(o, Len(sent[t])), o)
            /\ UNCHANGED <<tokenVars, issued, retired, rf, consumed>>

\* oauth_callback: exchange_code_for_token, then update_tokens with the
\* pair of the answer; any exception becomes an HTTP 500.
OAuthCallback(to, db) ==
    /\ Serving
    /\ Mints(to) => issued < MaxIssue
    /\ issued' = IF Mints(to) THEN issued + 1 ELSE issued
    /\ IF Stuck(to, db)
       THEN blocked' = StuckIn(to) /\ UNCHANGED tokenVars
       ELSE /\ UNCHANGED blocked
            /\ IF exchange_code_for_token(to).raised
               THEN UNCHANGED tokenVars
               ELSE IF KeyError(exchange_code_for_token(to).keys)
               THEN UNCHANGED tokenVars
               ELSE update_tokens(AccessTok(issued), RefreshTok(issued), db)
    /\ UNCHANGED <<retired, pc, sent, resp, rf, result, op, ret, boot,
                   consumed, auth>>

\* oauth_authorize: the URL built from settings.GHL_CLIENT_ID and
\* settings.GHL_REDIRECT_URI, which are the same at every call.
oauth_authorize(client_id, redirect_uri) ==
    /\ Serving
    /\ auth # NoAuth =>
          client_id = auth.client_id /\ redirect_uri = auth.redirect_uri
    /\ auth' = [client_id |-> client_id, redirect_uri |-> redirect_uri,
                url |-> get_authorization_url(client_id, redirect_uri)]
    /\ UNCHANGED <<tokenVars, issued, retired, pc, sent, resp, rf, result,
                   op, ret, blocked, boot, consumed>>

Next ==
    \/ \E t \in Tasks : Start(t)
    \/ \E t \in Tasks, o \in ApiOutcomes : Response(t, o)
    \/ \E to \in TokenOutcomes \cup {NoAnswer} : \E db \in DbFor(to) :
          OAuthCallback(to, db)

Spec == Init /\ [][Next]_vars

\* The same program started on any table and database.
SpecBoot == InitBoot /\ [][Next]_vars

\* GET /oauth/authorize under any settings the validators let through.
NextUrl ==
    \E client_id \in ClientIds, redirect_uri \in RedirectUris :
        oauth_authorize(client_id, redirect_uri)

SpecUrl == Init /\ [][NextUrl]_vars

----------------------------------------------------------------------------
\* The call whose history is recorded.

W == CHOOSE t \in Tasks : Watched(t)

Is401(o) == o.kind = "response" /\ o.status = 401
IsOkJson(o) == o.kind = "response" /\ o.status = 200 /\ o.json
Ended == pc[W] = "idle" /\ result.kind # "none"

\* t sends a business request in this step: its first, or a retry.
Sends(t) ==
    \/ pc[t] = "idle" /\ pc'[t] = "await"
    \/ pc[t] = "await" /\ Len(sent'[t]) > Len(sent[t])

Sending(t) == sent'[t][Len(sent'[t])]

CachedPair == <<access_token, refresh_token>>

\* a and r are the access and the refresh token of one issuance.
Paired(a, r) == a[1] = "access" /\ r[1] = "refresh" /\ a[2] = r[2]

----------------------------------------------------------------------------
\* C1: one _make_request call makes at most one refresh call and sends at
\* most two business requests, whatever the provider answers; a call that
\* is answered 401, refreshes successfully and is answered 401 again has
\* failed after exactly one refresh call and exactly two requests.
C1_NoRetryStorm ==
    /\ Len(rf) <= 1
    /\ \A t \in Tasks : Len(sent[t]) <= 2
    /\ Len(resp) <= Len(sent[W])
    /\ (/\ Len(resp) >= 2
        /\ \A i \in 1..Len(resp) : Is401(resp[i]))
       => /\ Ended
          /\ result.kind = "raised"
          /\ Len(rf) = 1
          /\ Len(sent[W]) = 2
          /\ Len(resp) = 2

C1_Witness ==
    /\ Ended
    /\ Len(resp) = 2
    /\ Is401(resp[1]) /\ Is401(resp[2])
    /\ Len(rf) = 1 /\ rf[1].ok

C3_CoalescedRefresh ==
    \A t, u \in Tasks :
        (/\ t # u
         /\ pc[t] = "await" /\ Len(sent[t]) = 2
         /\ pc[u] = "await" /\ Len(sent[u]) = 2)
        => sent[t][1] # sent[u][1]

\* C4: after update_tokens has returned without error, get_tokens returns
\* the pair it was given.
C4_SaveThenLoad ==
    lastSave # {} => get_tokens(store, "ok").pair = lastSave

\* C5: after a refresh of the call returned True, the cached pair is the
\* pair get_tokens returns.
C5_CacheMatchesStore ==
    (rf # <<>> /\ rf[Len(rf)].ok)
    => get_tokens(store, "ok").pair = {CachedPair}

\* C6: a refresh whose token request met a transport error, a non-2xx
\* status, a body that is not JSON or a body without access_token or
\* refresh_token returns False and leaves the table as it was.
C6_FailedRefreshLeavesStore ==
    [][(/\ Len(rf') > Len(rf)
        /\ LET a == rf'[Len(rf')].out
           IN \/ a.kind = "transport"
              \/ ~(200 <= a.status /\ a.status <= 299)
              \/ ~a.json
              \/ a.keys # TokenKeys)
       => /\ ~rf'[Len(rf')].ok
          /\ store' = store]_vars

\* C7: the cached pair and every row of the table hold the access token and
\* the refresh token of one issuance, and the Authorization header carries
\* the cached access token, in every state a reader can see.
C7_PairIssuedTogether ==
    /\ Paired(access_token, refresh_token)
    /\ headers.Authorization = access_token
    /\ \A w \in store : Paired(w.access_token, w.refresh_token)

C7_Witness ==
    /\ retired # {}
    /\ lastSave = {CachedPair}
    /\ \E t \in Tasks :
         /\ pc[t] = "await" /\ Len(sent[t]) = 2
         /\ sent[t][2] # access_token

\* C8: every business request, first attempt or retry, carries the access
\* token cached when it is sent, and never one a successful refresh has
\* replaced.
C8_NewTokenAfterRefresh ==
    [][\A t \in Tasks :
         Sends(t) => /\ Sending(t) = access_token'
                     /\ Sending(t) \notin retired']_vars

C8_Witness ==
    /\ retired # {}
    /\ \E t \in Tasks :
         /\ pc[t] = "await" /\ Len(sent[t]) = 1
         /\ sent[t][1] = access_token
         /\ sent[t][1] \notin retired

\* C9: a call refreshes only after a 401 on its first request; when that
\* first request fails in transport or is answered another non-2xx status,
\* the call raises at once: no refresh call, no second request, and the
\* cached and stored tokens unchanged.
C9_OnlyOn401 ==
    [][/\ rf' # <<>> => Is401(resp'[1])
       /\ (/\ pc[W] = "await" /\ resp = <<>> /\ Len(resp') = 1
           /\ ~Is401(resp'[1])
           /\ \/ resp'[1].kind = "transport"
              \/ ~(200 <= resp'[1].status /\ resp'[1].status <= 299))
          => /\ pc'[W] = "idle"
             /\ result'.kind = "raised"
             /\ rf' = <<>>
             /\ sent'[W] = sent[W] /\ Len(sent[W]) = 1
             /\ issued' = issued
             /\ UNCHANGED tokenVars]_vars

C9_Witness ==
    /\ Ended
    /\ result = Raised("HTTPStatusError", 1)
    /\ Len(resp) = 1 /\ resp[1].status = 500
    /\ rf = <<>>

\* C10: a call answered 401 whose refresh returns False raises, having sent
\* one business request and made one refresh call.
C10_FailedRefreshSurfaces ==
    (rf # <<>> /\ ~rf[1].ok)
    => /\ Ended
       /\ result.kind = "raised"
       /\ Len(sent[W]) = 1
       /\ Len(resp) = 1
       /\ Len(rf) = 1

C10_Witness ==
    /\ Ended
    /\ Len(rf) = 1 /\ ~rf[1].ok
    /\ Is401(resp[1])
    /\ result = Raised("HTTPStatusError", 1)

----------------------------------------------------------------------------
\* The provider accepted the request answered by o.
Accepted(o) == o.kind = "response" /\ 200 <= o.status /\ o.status <= 299

\* C11: get_contact_pipeline and send_sms never let a failure through: when
\* the _make_request call raised (status error, transport error, failed
\* refresh, failed retry, undecodable body) or its JSON is no object,
\* get_contact_pipeline returns "" and send_sms returns False.
C11_FailuresSwallowed ==
    /\ ret.kind # "raised"
    /\ (Ended /\ result.kind = "raised")
       => /\ ret.kind = "returned"
          /\ op = "get_contact_pipeline" => ret.name = ""
          /\ op = "send_sms" => ret.success = FALSE
    /\ (Ended /\ op = "get_contact_pipeline" /\ resp[Len(resp)].body = "array")
       => ret = ReturnsName("")

C11_Witness ==
    /\ Ended
    /\ op = "get_contact_pipeline"
    /\ Len(rf) = 1 /\ ~rf[1].ok
    /\ result = Raised("HTTPStatusError", 1)
    /\ ret = ReturnsName("")

\* C13: within one send_sms call a second POST is sent only after the first
\* was answered 401, never after the first was accepted, and the provider
\* accepts at most one of the POSTs.
C13_PostAcceptedOnce ==
    op = "send_sms"
    => /\ Len(sent[W]) >= 2 => (Len(resp) >= 1 /\ Is401(resp[1]))
       /\ Len(sent[W]) >= 2 => ~Accepted(resp[1])
       /\ Cardinality({i \in 1..Len(resp) : Accepted(resp[i])}) <= 1

C13_Witness ==
    /\ Ended
    /\ op = "send_sms"
    /\ Len(resp) = 2
    /\ Is401(resp[1])
    /\ Accepted(resp[2])
    /\ ret = ReturnsBool(TRUE)

\* C19: send_sms returns True exactly when the provider accepted the POST,
\* first or retried, with a 2xx status.
C19_TrueIffAccepted ==
    (Ended /\ op = "send_sms")
    => (ret.success <=> \E i \in 1..Len(resp) : Accepted(resp[i]))

\* C12: a call in progress can always go on to return: no outbound call of
\* the program waits without a bound for the provider, the token endpoint
\* or the database.
C12_CallCanReturn ==
    \A t \in Tasks :
        pc[t] # "idle" => ENABLED (\E o \in ApiOutcomes : Response(t, o))

\* C14: get_tokens on an empty table raises and returns no pair, on an
\* unreachable database it raises too, and the two exceptions are of
\* different classes, so that a caller can handle each on its own.
C14_LoadFailuresDistinct ==
    /\ boot = get_tokens({}, "ok") =>
          /\ boot.raised # "" /\ boot.pair = {}
          /\ boot.raised # get_tokens(store, "unavailable").raised
    /\ boot = get_tokens(store, "unavailable") =>
          /\ boot.raised # "" /\ boot.pair = {}
          /\ boot.raised # get_tokens({}, "ok").raised

\* C17: a refresh call never presents a refresh token that the provider
\* has already exchanged for a new pair in an earlier refresh of this
\* process.
C17_FreshRefreshToken ==
    [][Len(rf') > Len(rf) => rf'[Len(rf')].presented \notin consumed]_vars

\* C18: when refresh_access_token returns False, because the exchange
\* failed or because update_tokens raised, self.access_token,
\* self.refresh_token and the Authorization header are what they were
\* before the call.
C18_FailureKeepsCache ==
    [][(Len(rf') > Len(rf) /\ ~rf'[Len(rf')].ok)
          => UNCHANGED <<access_token, refresh_token, headers>>]_vars

\* A refresh whose exchange gave a new pair and whose update_tokens raised
\* has returned False, and the cache still holds the pair it presented.
C18_Witness ==
    \E i \in 1..Len(rf) :
        /\ ~rf[i].ok
        /\ ~ExchangeRaises(rf[i].out)
        /\ Ended
        /\ refresh_token = rf[i].presented

\* The token endpoint answered the code exchange with something other than
\* a 2xx whose body holds access_token and refresh_token.
BadExchange(to) == ~Accepted(to) \/ ~to.json \/ to.keys # TokenKeys

\* C15: exchange_code_for_token raises on a non-2xx answer and on a body
\* missing access_token or refresh_token; in oauth_callback the table and
\* the cache stay as they were when the exchange failed, and change only to
\* the pair of a successful exchange.
C15_CallbackSavesOnlyGoodPair ==
    [][\A to \in TokenOutcomes : \A db \in DbFor(to) :
          OAuthCallback(to, db) =>
            /\ BadExchange(to) => exchange_code_for_token(to).raised
            /\ BadExchange(to) =>
                  UNCHANGED <<store, access_token, refresh_token, headers>>
            /\ ~UNCHANGED <<store, access_token, refresh_token, headers>> =>
                  /\ ~exchange_code_for_token(to).raised
                  /\ CachedPair' = <<AccessTok(issued), RefreshTok(issued)>>
      ]_vars

\* C16: parsing the query of the URL get_authorization_url built gives
\* back, for client_id, redirect_uri and scope, exactly the one value that
\* went in, whatever reserved characters it holds.
C16_UrlRoundTrip ==
    auth # NoAuth =>
        /\ Values(auth.url, "client_id") = <<auth.client_id>>
        /\ Values(auth.url, "redirect_uri") = <<auth.redirect_uri>>
        /\ Values(auth.url, "scope") = <<SCOPE>>

====
